---------------------------- MODULE Spec2Model ----------------------------
(***************************************************************************)
(* A model of picopower's asynchronous MQTT client                         *)
(* (src/async_mqtt_client.py, class AsyncMQTTClient).                      *)
(*                                                                         *)
(* The client object is the record `self`; every method of the class is an *)
(* operator that takes `self` and the method's inputs and returns the call *)
(* outcome: the new `self`, the exception raised (if any), the value       *)
(* returned, the bytes written to the transport, the number of drain()     *)
(* calls, the number of bytes read from the transport and the callback     *)
(* invocations.  Byte strings are sequences of numbers 0..255; a `str` is  *)
(* a sequence of Unicode code points.                                      *)
(***************************************************************************)
EXTENDS Integers, Sequences, FiniteSets, TLC

VARIABLES
    self,      \* the AsyncMQTTClient object's fields
    socks,     \* socks[k]: state of the k-th socket created by connect()
    rx,        \* bytes the peer has sent on the current transport, not yet read
    rxStart,   \* rxStart[i]: rx[i] is the first byte of a packet the peer sent
    rxEof,     \* the peer has closed its end of the current transport
    last,      \* the step just taken: a call with its inputs and its outcome, or
               \* a step of the peer
    app        \* main.py: where the tasks mqtt() and sensor() stand, their
               \* locals and the global pulse_counter

vars == <<self, socks, rx, rxStart, rxEof, last, app>>

---------------------------------------------------------------------------
(* Bounds of the model.                                                    *)

MaxSockets == 1    \* sockets connect() may create in one behaviour
MaxPid     == 2    \* packet identifiers allocated in one behaviour

---------------------------------------------------------------------------
(* Values.                                                                 *)

\* Python's None, for a field or an argument that is otherwise a name
None == "None"

\* A field that holds None or a byte string: <<>> is None, <<b>> is b
NoBytes == <<>>
Some(b) == <<b>>
Val(o)  == o[1]

\* n * b"x": a payload of about 2 MiB is kept symbolic; the element -n of a
\* byte string stands for n consecutive bytes 0x78
Run(n) == <<-n>>

\* len() of a byte string
RECURSIVE BLen(_)
BLen(s) ==
    IF s = <<>> THEN 0
    ELSE (IF Head(s) < 0 THEN -Head(s) ELSE 1) + BLen(Tail(s))

\* b & 0x7f, b & 0x80, op & 0xF0, op & 6 for 0 <= b < 256
And7F(b) == b % 128
And80(b) == (b \div 128) * 128
AndF0(b) == (b \div 16) * 16
And06(b) == ((b \div 2) % 4) * 2

\* struct.pack("!H", n)
PackH(n) == << (n \div 256) % 256, n % 256 >>

\* struct.unpack("!H", b)[0] and (b[0] << 8) | b[1]
UnpackH(b) == b[1] * 256 + b[2]

\* str.encode('utf-8') on a sequence of code points below 0x800; ASCII text
\* is its own encoding
RECURSIVE Utf8Encode(_)
Utf8Encode(s) ==
    IF \A i \in 1..Len(s) : s[i] < 128 THEN s
    ELSE LET cp == Head(s)
         IN  (IF cp < 128 THEN <<cp>>
              ELSE << 192 + (cp \div 64), 128 + (cp % 64) >>)
             \o Utf8Encode(Tail(s))

\* bytes.decode('utf-8'): the code points, or <<-1>> when the bytes are not UTF-8
RECURSIVE Utf8Decode(_)
Utf8Decode(b) ==
    IF b = <<>> THEN <<>>
    ELSE IF b[1] < 128
         THEN LET r == Utf8Decode(Tail(b))
              IN  IF r = <<-1>> THEN r ELSE <<b[1]>> \o r
    ELSE IF b[1] >= 194 /\ b[1] < 224 /\ Len(b) >= 2 /\ b[2] >= 128 /\ b[2] < 192
         THEN LET r == Utf8Decode(SubSeq(b, 3, Len(b)))
              IN  IF r = <<-1>> THEN r
                  ELSE << (b[1] - 192) * 64 + (b[2] - 128) >> \o r
    ELSE <<-1>>

---------------------------------------------------------------------------
(* The variable-length "remaining length" codec.                           *)

\* the encoding loop of publish (lines 205-210) and of connect (120-125):
\* the bytes premsg[1..i] / pkt[1..i]
RECURSIVE EncodeLen(_)
EncodeLen(sz) ==
    IF sz > 127 THEN << (sz % 128) + 128 >> \o EncodeLen(sz \div 128)
    ELSE << sz >>

\* a variant of _recv_len that does not mask the continuation bit off
RECURSIVE RecvLen_nomask(_, _, _, _)
RecvLen_nomask(b, i, n, sh) ==
    IF i > Len(b) THEN [ok |-> FALSE, n |-> n, next |-> i]
    ELSE LET n2 == n + b[i] * sh
         IN  IF And80(b[i]) = 0 THEN [ok |-> TRUE, n |-> n2, next |-> i + 1]
             ELSE RecvLen_nomask(b, i + 1, n2, sh * 128)

\* _recv_len over the byte string b from position i (1-based), n and sh as in
\* the code: [ok, n, next]: ok = FALSE when the bytes run out
RECURSIVE RecvLen(_, _, _, _)
RecvLen(b, i, n, sh) ==
    IF i > Len(b) THEN [ok |-> FALSE, n |-> n, next |-> i]
    ELSE LET n2 == n + And7F(b[i]) * sh
         IN  IF And80(b[i]) = 0 THEN [ok |-> TRUE, n |-> n2, next |-> i + 1]
             ELSE RecvLen(b, i + 1, n2, sh * 128)

---------------------------------------------------------------------------
(* The outcome of a call.                                                  *)

NoExc == "none"

\* s: the object after the call; exc/arg: the exception that reached the
\* caller and its argument; ret: the value returned (-1: None, or no return);
\* written: the bytes handed to _writer.write, in order; flushes: completed
\* _writer.drain() calls; nread: bytes taken from _reader; cbs: the callback
\* invocations, in order
Outcome(s, exc, arg, ret, written, flushes, nread, cbs) ==
    [s |-> s, exc |-> exc, arg |-> arg, ret |-> ret, written |-> written,
     flushes |-> flushes, nread |-> nread, cbs |-> cbs]

\* The call cannot finish yet: readexactly() is waiting for bytes the peer
\* has not sent.
Blocked == "blocked"

RECURSIVE Concat(_)
Concat(chunks) ==
    IF chunks = <<>> THEN <<>> ELSE Head(chunks) \o Concat(Tail(chunks))

\* A series of _writer.write(chunk) calls followed by one `await
\* _writer.drain()`.  failAt names the transport call that raises OSError:
\* 0 none, k <= Len(chunks) the k-th write, Len(chunks) + 1 the drain.
Transmit(chunks, failAt) ==
    LET n == Len(chunks)
    IN  IF failAt >= 1 /\ failAt <= n
        THEN [exc |-> "OSError", written |-> Concat(SubSeq(chunks, 1, failAt - 1)),
              flushes |-> 0, calls |-> failAt - 1]
        ELSE IF failAt = n + 1
        THEN [exc |-> "OSError", written |-> Concat(chunks),
              flushes |-> 0, calls |-> n]
        ELSE [exc |-> NoExc, written |-> Concat(chunks),
              flushes |-> 1, calls |-> n + 1]

\* _send_str(s): the two writes it makes
SendStr(s) == << PackH(BLen(s)), s >>

---------------------------------------------------------------------------
(* AsyncMQTTClient.__init__, set_callback, set_last_will.                  *)

\* client_id is a str (code points); user and password are <<>> (None) or
\* <<str>>
NewClient(client_id, user, password, keepalive) ==
    [client_id |-> Utf8Encode(client_id),
     sock      |-> 0,
     pid       |-> 0,
     cb        |-> None,
     user      |-> IF user # <<>> /\ Val(user) # <<>>
                   THEN Some(Utf8Encode(Val(user))) ELSE NoBytes,
     pswd      |-> IF password # <<>> /\ Val(password) # <<>>
                   THEN Some(Utf8Encode(Val(password))) ELSE NoBytes,
     keepalive |-> keepalive,
     lw_topic  |-> NoBytes,
     lw_msg    |-> NoBytes,
     lw_qos    |-> 0,
     lw_retain |-> FALSE,
     reader    |-> 0,
     writer    |-> 0]

set_callback(s, f) ==
    Outcome([s EXCEPT !.cb = f], NoExc, <<>>, -1, <<>>, 0, 0, <<>>)

\* A payload argument: what the caller passed as `msg`.
Bytes(b)  == [type |-> "bytes", val |-> b]
Str(cps)  == [type |-> "str", val |-> cps]

IsBytes(msg) == msg.type = "bytes"

\* a variant of the range check that lets qos 3 through
QosInRange_upto3(qos) == 0 <= qos /\ qos <= 3

QosInRange(qos) == 0 <= qos /\ qos <= 2

set_last_will(s, topic, msg, retain, qos) ==
    IF ~QosInRange(qos)
    THEN Outcome(s, "ValueError", <<>>, -1, <<>>, 0, 0, <<>>)
    ELSE IF topic = <<>>
    THEN Outcome(s, "ValueError", <<>>, -1, <<>>, 0, 0, <<>>)
    ELSE IF ~IsBytes(msg)
    THEN Outcome(s, "TypeError", <<>>, -1, <<>>, 0, 0, <<>>)
    ELSE Outcome([s EXCEPT !.lw_topic = Some(Utf8Encode(topic)),
                           !.lw_msg = Some(msg.val),
                           !.lw_qos = qos, !.lw_retain = retain],
                 NoExc, <<>>, -1, <<>>, 0, 0, <<>>)

---------------------------------------------------------------------------
(* connect, disconnect, ping.                                              *)

\* socket.close(): the descriptor is released; close() is taken not to raise
CloseSock(sk, k) == [sk EXCEPT ![k] = "closed"]

\* a variant of the clause that drops the references without closing the socket
connect_except_leak(s, sk) ==
    [s     |-> [s EXCEPT !.sock = 0, !.reader = 0, !.writer = 0],
     socks |-> sk]

\* the `except Exception` clause of connect (lines 148-157): close the socket
\* the object references (an error of close() is swallowed), clear the three
\* references, re-raise
connect_except(s, sk) ==
    [s     |-> [s EXCEPT !.sock = 0, !.reader = 0, !.writer = 0],
     socks |-> IF s.sock # 0 THEN CloseSock(sk, s.sock) ELSE sk]

\* a variant of the flags byte that leaves the will-retain bit out
ConnectFlags_no_retain(s, clean_session) ==
    (IF clean_session THEN 2 ELSE 0)
    + (IF s.user # NoBytes THEN 192 ELSE 0)
    + (IF s.lw_topic # NoBytes
       THEN 4 + (s.lw_qos % 2) * 8 + ((s.lw_qos \div 2) % 2) * 16
       ELSE 0)

\* the connect-flags byte msg[6] (lines 108-118)
ConnectFlags(s, clean_session) ==
    (IF clean_session THEN 2 ELSE 0)
    + (IF s.user # NoBytes THEN 192 ELSE 0)
    + (IF s.lw_topic # NoBytes
       THEN 4 + (s.lw_qos % 2) * 8 + ((s.lw_qos \div 2) % 2) * 16
            + (IF s.lw_retain THEN 32 ELSE 0)
       ELSE 0)

\* a variant of the size that leaves out the length prefix of the client id
ConnectSize_noprefix(s) ==
    10 + BLen(s.client_id)
    + (IF s.user # NoBytes THEN 2 + BLen(Val(s.user)) + 2 + BLen(Val(s.pswd)) ELSE 0)
    + (IF s.lw_topic # NoBytes
       THEN 2 + BLen(Val(s.lw_topic)) + 2 + BLen(Val(s.lw_msg)) ELSE 0)

\* sz: the remaining length of CONNECT (lines 107-116)
ConnectSize(s) ==
    10 + 2 + BLen(s.client_id)
    + (IF s.user # NoBytes THEN 2 + BLen(Val(s.user)) + 2 + BLen(Val(s.pswd)) ELSE 0)
    + (IF s.lw_topic # NoBytes
       THEN 2 + BLen(Val(s.lw_topic)) + 2 + BLen(Val(s.lw_msg)) ELSE 0)

\* the write calls of connect, in order (lines 128-136): premsg[:i + 2] is the
\* opcode, the encoded length and one more zero byte of premsg
ConnectWrites(s, clean_session) ==
    << <<16>> \o EncodeLen(ConnectSize(s)) \o <<0>>,
       << 4, 77, 81, 84, 84, 4, ConnectFlags(s, clean_session) >>
          \o PackH(s.keepalive) >>
    \o SendStr(s.client_id)
    \o (IF s.lw_topic # NoBytes
        THEN SendStr(Val(s.lw_topic)) \o SendStr(Val(s.lw_msg)) ELSE <<>>)
    \o (IF s.user # NoBytes
        THEN SendStr(Val(s.user)) \o SendStr(Val(s.pswd)) ELSE <<>>)

\* a variant of the check that looks at the marker byte only
ConnackHeaderOk_marker(resp) == resp[1] = 32

\* the CONNACK marker/size check (line 141)
ConnackHeaderOk(resp) == resp[1] = 32 /\ resp[2] = 2

\* the return-code check (line 143)
ConnackAccepted(resp) == resp[4] = 0

\* env.fail: "socket", "getaddrinfo" or "connect" when that call raises OSError;
\* env.failAt: the transport call that raises (see Transmit); env.resp: the
\* bytes the peer sends in reply before it sends anything else or closes
\* (fewer than 4: it closed).  Returns [o: the outcome, socks: the sockets].
connect(s, sk, clean_session, env) ==
    LET Raise(s1, sk1, exc, arg, written, flushes, nread) ==
            LET h == connect_except(s1, sk1)
            IN  [o |-> Outcome(h.s, exc, arg, -1, written, flushes, nread, <<>>),
                 socks |-> h.socks]
        k  == Len(sk) + 1
        sk1 == Append(sk, "open")
        s1 == [s EXCEPT !.sock = k]
        s2 == [s1 EXCEPT !.reader = k, !.writer = k]
    IN  IF env.fail = "socket" THEN Raise(s, sk, "OSError", <<>>, <<>>, 0, 0)
        ELSE IF env.fail \in {"getaddrinfo", "connect"}
        THEN Raise(s1, sk1, "OSError", <<>>, <<>>, 0, 0)
        ELSE IF s.user # NoBytes /\ s.pswd = NoBytes
        THEN Raise(s2, sk1, "TypeError", <<>>, <<>>, 0, 0)    \* len(None), line 110
        ELSE LET t == Transmit(ConnectWrites(s, clean_session), env.failAt)
             IN  IF t.exc # NoExc THEN Raise(s2, sk1, t.exc, <<>>, t.written, 0, 0)
                 ELSE IF Len(env.resp) < 4
                 THEN Raise(s2, sk1, "EOFError", <<>>, t.written, 1, Len(env.resp))
                 ELSE IF ~ConnackHeaderOk(env.resp)
                 THEN Raise(s2, sk1, "MQTTException", env.resp, t.written, 1, 4)
                 ELSE IF ~ConnackAccepted(env.resp)
                 THEN Raise(s2, sk1, "MQTTException", <<env.resp[4]>>, t.written, 1, 4)
                 ELSE [o |-> Outcome(s2, NoExc, <<>>, env.resp[3] % 2,
                                     t.written, t.flushes, 4, <<>>),
                       socks |-> sk1]

\* the `finally` clause of disconnect (lines 170-175)
disconnect_finally(s, sk) ==
    [s     |-> [s EXCEPT !.reader = 0, !.writer = 0, !.sock = 0],
     socks |-> IF s.sock # 0 THEN CloseSock(sk, s.sock) ELSE sk]

\* a variant of disconnect without try/finally: a failed write skips the cleanup
disconnect_no_finally(s, sk, failAt) ==
    LET t == IF s.writer # 0 THEN Transmit(<< <<224, 0>> >>, failAt)
             ELSE [exc |-> NoExc, written |-> <<>>, flushes |-> 0, calls |-> 0]
        f == IF t.exc = NoExc THEN disconnect_finally(s, sk)
             ELSE [s |-> s, socks |-> sk]
    IN  [o |-> Outcome(f.s, t.exc, <<>>, -1, t.written, t.flushes, 0, <<>>),
         socks |-> f.socks]

\* the `try` body runs, then the `finally` clause whether or not it raised
disconnect(s, sk, failAt) ==
    LET t == IF s.writer # 0 THEN Transmit(<< <<224, 0>> >>, failAt)
             ELSE [exc |-> NoExc, written |-> <<>>, flushes |-> 0, calls |-> 0]
        f == disconnect_finally(s, sk)
    IN  [o |-> Outcome(f.s, t.exc, <<>>, -1, t.written, t.flushes, 0, <<>>),
         socks |-> f.socks]

\* a variant of ping that drops the transport references when the write fails
ping_teardown(s, failAt) ==
    IF s.writer = 0
    THEN Outcome(s, "AttributeError", <<>>, -1, <<>>, 0, 0, <<>>)
    ELSE LET t == Transmit(<< <<192, 0>> >>, failAt)
             s1 == IF t.exc = NoExc THEN s
                   ELSE [s EXCEPT !.sock = 0, !.reader = 0, !.writer = 0]
         IN  Outcome(s1, t.exc, <<>>, -1, t.written, t.flushes, 0, <<>>)

\* ping (lines 177-180): write PINGREQ, drain
ping(s, failAt) ==
    IF s.writer = 0
    THEN Outcome(s, "AttributeError", <<>>, -1, <<>>, 0, 0, <<>>)
    ELSE LET t == Transmit(<< <<192, 0>> >>, failAt)
         IN  Outcome(s, t.exc, <<>>, -1, t.written, t.flushes, 0, <<>>)

---------------------------------------------------------------------------
(* Reading.  A call reads from b, the bytes the peer has sent so far and   *)
(* the object has not read yet; position i is the next unread byte.  A     *)
(* readexactly() that needs more than b holds raises EOFError when the     *)
(* peer has closed (eof) and waits otherwise.                              *)

Short(eof) == IF eof THEN "EOFError" ELSE Blocked

Has(b, i, n) == i + n - 1 <= Len(b)

\* the result of a read loop: the exception (or NoExc, Blocked) and the number
\* of bytes taken
ReadResult(exc, nread) == [exc |-> exc, nread |-> nread]

\* the PUBACK length check (line 227)
PubackSizeOk(sz) == sz = 2

\* the identifier comparison that ends the wait (line 231)
PubackMatches(pid, rcv_pid) == pid = rcv_pid

\* the `while True` loop of publish, qos 1 (lines 222-232), each iteration
\* taking one byte through _wait_msg_internal (lines 279-284)
RECURSIVE WaitPuback(_, _, _, _)
WaitPuback(b, eof, i, pid) ==
    IF ~Has(b, i, 1) THEN ReadResult(Short(eof), Len(b))
    ELSE IF b[i] = 64
         THEN IF ~Has(b, i + 1, 1) THEN ReadResult(Short(eof), Len(b))
              ELSE IF ~PubackSizeOk(b[i + 1]) THEN ReadResult("MQTTException", i + 1)
              ELSE IF ~Has(b, i + 2, 2) THEN ReadResult(Short(eof), Len(b))
              ELSE IF PubackMatches(pid, UnpackH(SubSeq(b, i + 2, i + 3)))
                   THEN ReadResult(NoExc, i + 3)
                   ELSE WaitPuback(b, eof, i + 4, pid)
         ELSE WaitPuback(b, eof, i + 1, pid)

\* a variant of the loop that takes three bytes after the SUBACK opcode
RECURSIVE WaitSuback_three(_, _, _)
WaitSuback_three(b, eof, i) ==
    IF ~Has(b, i, 1) THEN ReadResult(Short(eof), Len(b))
    ELSE IF b[i] = 144
         THEN IF ~Has(b, i + 1, 3) THEN ReadResult(Short(eof), Len(b))
              ELSE ReadResult(NoExc, i + 3)
         ELSE WaitSuback_three(b, eof, i + 1)

\* the `while True` loop of subscribe (lines 272-277)
RECURSIVE WaitSuback(_, _, _)
WaitSuback(b, eof, i) ==
    IF ~Has(b, i, 1) THEN ReadResult(Short(eof), Len(b))
    ELSE IF b[i] = 144
         THEN IF ~Has(b, i + 1, 4) THEN ReadResult(Short(eof), Len(b))
              ELSE ReadResult(NoExc, i + 4)
         ELSE WaitSuback(b, eof, i + 1)

---------------------------------------------------------------------------
(* publish, subscribe.                                                     *)

\* a variant of the counter step that hands out identifier 1 again and again
NextPid_restart(pid) == 1

\* self.pid += 1 (lines 214 and 264)
NextPid(pid) == pid + 1

\* a variant of the test that allocates an identifier at every QoS
AllocatesPid_always(qos) == TRUE

\* the test that guards the identifier of PUBLISH (lines 201 and 213)
AllocatesPid(qos) == qos > 0

\* sz, the remaining length of PUBLISH (lines 200-202)
PublishSize(topic_bytes, msg_bytes, qos) ==
    2 + BLen(topic_bytes) + BLen(msg_bytes) + (IF AllocatesPid(qos) THEN 2 ELSE 0)

\* a variant of the ceiling that admits a remaining length of exactly 2,097,152
TooLong_exclusive(sz) == sz > 2097152

\* the size ceiling (line 203)
TooLong(sz) == sz >= 2097152

\* a variant of the header with a one-byte length and no continuation bytes
PublishHeader_onebyte(sz, retain, qos) ==
    << 48 + qos * 2 + (IF retain THEN 1 ELSE 0), sz % 256 >>

\* pkt[:i + 1]: the fixed header of PUBLISH (lines 198-211)
PublishHeader(sz, retain, qos) ==
    << 48 + qos * 2 + (IF retain THEN 1 ELSE 0) >> \o EncodeLen(sz)

\* the write calls of publish, in order (lines 211-217); pid is the identifier
\* allocated at line 214
PublishWrites(topic_bytes, msg_bytes, retain, qos, pid) ==
    << PublishHeader(PublishSize(topic_bytes, msg_bytes, qos), retain, qos) >>
    \o SendStr(topic_bytes)
    \o (IF AllocatesPid(qos) THEN << PackH(pid) >> ELSE <<>>)
    \o << msg_bytes >>

\* topic: a str; msg: Bytes(..) or Str(..); b, eof: what the peer has sent
publish(s, b, eof, topic, msg, retain, qos, failAt) ==
    LET topic_bytes == Utf8Encode(topic)
    IN  IF ~IsBytes(msg)
        THEN Outcome(s, "TypeError", <<>>, -1, <<>>, 0, 0, <<>>)
        ELSE IF TooLong(PublishSize(topic_bytes, msg.val, qos))
        THEN Outcome(s, "MQTTException", <<>>, -1, <<>>, 0, 0, <<>>)
        ELSE IF s.writer = 0
        THEN Outcome(s, "AttributeError", <<>>, -1, <<>>, 0, 0, <<>>)
        ELSE
        LET pid == NextPid(s.pid)
            t   == Transmit(PublishWrites(topic_bytes, msg.val, retain, qos, pid),
                            failAt)
            \* self.pid += 1 runs once the header and the topic are written
            s1  == IF AllocatesPid(qos) /\ t.calls >= 3 THEN [s EXCEPT !.pid = pid] ELSE s
        IN  IF t.exc # NoExc
            THEN Outcome(s1, t.exc, <<>>, -1, t.written, t.flushes, 0, <<>>)
            ELSE IF qos = 1
            THEN LET r == WaitPuback(b, eof, 1, pid)
                 IN  Outcome(s1, r.exc, <<>>, -1, t.written, t.flushes, r.nread, <<>>)
            ELSE IF qos = 2
            THEN Outcome(s1, "NotImplementedError", <<>>, -1, t.written, t.flushes,
                         0, <<>>)
            ELSE Outcome(s1, NoExc, <<>>, -1, t.written, t.flushes, 0, <<>>)

\* a variant of the precondition that lets a subscribe without callback through
HasCallback_unchecked(s) == TRUE

\* the precondition of subscribe (line 258)
HasCallback(s) == s.cb # None

\* pkt once struct.pack_into("!BH", pkt, 1, len, pid) has filled it in
\* (lines 263-265): format B stores len in the single byte pkt[1]
SubscribeHeader(len, pid) == << 130, len % 256 >> \o PackH(pid)

\* checked: struct.pack_into raises struct.error for a B value above 255, as
\* CPython does; MicroPython does not check the range and stores the low byte
subscribe(s, b, eof, topic, qos, failAt, checked) ==
    LET topic_bytes == Utf8Encode(topic)
        pid == NextPid(s.pid)
        s1  == [s EXCEPT !.pid = pid]
        len == 2 + 2 + BLen(topic_bytes) + 1
    IN  IF ~HasCallback(s)
        THEN Outcome(s, "MQTTException", <<>>, -1, <<>>, 0, 0, <<>>)
        ELSE IF len > 255 /\ checked     \* line 265
        THEN Outcome(s1, "struct.error", <<>>, -1, <<>>, 0, 0, <<>>)
        ELSE IF s.writer = 0
        THEN Outcome(s1, "AttributeError", <<>>, -1, <<>>, 0, 0, <<>>)
        ELSE
        LET t == Transmit(<< SubscribeHeader(len, pid) >> \o SendStr(topic_bytes)
                          \o << <<qos>> >>, failAt)
        IN  IF t.exc # NoExc
            THEN Outcome(s1, t.exc, <<>>, -1, t.written, t.flushes, 0, <<>>)
            ELSE LET r == WaitSuback(b, eof, 1)
                 IN  Outcome(s1, r.exc, <<>>, -1, t.written, t.flushes, r.nread, <<>>)

---------------------------------------------------------------------------
(* wait_msg, check_msg.                                                    *)

\* the PINGRESP length check (line 294)
PingrespSizeOk(sz) == sz = 0

\* the PUBLISH test on the opcode (line 299)
IsPublish(op) == AndF0(op) = 48

\* a variant of the size that does not take off the two topic-length bytes
PayloadSize_keeps_prefix(remaining, topic_len, hasPid) ==
    remaining - topic_len - (IF hasPid THEN 2 ELSE 0)

\* sz once the topic and the identifier are taken off it (lines 307-312)
PayloadSize(remaining, topic_len, hasPid) ==
    remaining - (topic_len + 2) - (IF hasPid THEN 2 ELSE 0)

\* a variant of the PUBACK that keeps the identifier 0 of the template
PubackPkt_template(pid) == << 64, 2, 0, 0 >>

\* pkt: the PUBACK wait_msg answers a QoS 1 PUBLISH with (lines 322-323)
PubackPkt(pid) == << 64, 2 >> \o PackH(pid)

\* the PUBLISH branch of wait_msg (lines 302-329); b[1] = op is read already
WaitMsgPublish(s, b, eof, failAt) ==
    LET op == b[1]
        rl == RecvLen(b, 2, 0, 1)
        j  == rl.next                      \* position of the topic length
        topic_len == UnpackH(SubSeq(b, j, j + 1))
        topic == SubSeq(b, j + 2, j + 1 + topic_len)
        hasPid == And06(op) # 0
        k  == j + 2 + topic_len            \* position after the topic
        pid == UnpackH(SubSeq(b, k, k + 1))
        m  == IF hasPid THEN k + 2 ELSE k  \* position of the payload
        sz == PayloadSize(rl.n, topic_len, hasPid)
        msg == SubSeq(b, m, m + sz - 1)
        text == Utf8Decode(topic)
        cbs == IF s.cb # None THEN << <<s.cb, text, msg>> >> ELSE <<>>
        short == Outcome(s, Short(eof), <<>>, -1, <<>>, 0, Len(b), <<>>)
    IN  IF ~rl.ok THEN short
        ELSE IF ~Has(b, j, 2) THEN short
        ELSE IF ~Has(b, j + 2, topic_len) THEN short
        ELSE IF hasPid /\ ~Has(b, k, 2) THEN short
        ELSE IF sz < 0       \* readexactly of a negative count
        THEN Outcome(s, "ValueError", <<>>, -1, <<>>, 0, m - 1, <<>>)
        ELSE IF ~Has(b, m, sz) THEN short
        ELSE IF s.cb # None /\ text = <<-1>>
        THEN Outcome(s, "UnicodeError", <<>>, -1, <<>>, 0, m + sz - 1, <<>>)
        ELSE IF And06(op) = 2
        THEN LET t == IF s.writer = 0
                      THEN [exc |-> "AttributeError", written |-> <<>>, flushes |-> 0]
                      ELSE Transmit(<< PubackPkt(pid) >>, failAt)
             IN  Outcome(s, t.exc, <<>>, IF t.exc = NoExc THEN op ELSE -1,
                         t.written, t.flushes, m + sz - 1, cbs)
        ELSE IF And06(op) = 4
        THEN Outcome(s, "NotImplementedError", <<>>, -1, <<>>, 0, m + sz - 1, cbs)
        ELSE Outcome(s, NoExc, <<>>, op, <<>>, 0, m + sz - 1, cbs)

wait_msg(s, b, eof, failAt) ==
    IF s.reader = 0
    THEN Outcome(s, "AttributeError", <<>>, -1, <<>>, 0, 0, <<>>)
    ELSE IF ~Has(b, 1, 1)
    THEN Outcome(s, Short(eof), <<>>, -1, <<>>, 0, 0, <<>>)
    ELSE IF b[1] = 208
    THEN IF ~Has(b, 2, 1) THEN Outcome(s, Short(eof), <<>>, -1, <<>>, 0, 1, <<>>)
         ELSE IF ~PingrespSizeOk(b[2])
         THEN Outcome(s, "MQTTException", <<>>, -1, <<>>, 0, 2, <<>>)
         ELSE Outcome(s, NoExc, <<>>, -1, <<>>, 0, 2, <<>>)
    ELSE IF ~IsPublish(b[1])
    THEN Outcome(s, NoExc, <<>>, b[1], <<>>, 0, 1, <<>>)
    ELSE WaitMsgPublish(s, b, eof, failAt)

\* poll.poll(0) with POLLIN: the socket has bytes to read, or the peer closed
Readable(b, eof) == Len(b) > 0 \/ eof

check_msg(s, b, eof, failAt) ==
    IF s.sock = 0      \* poll.register(None) raises
    THEN Outcome(s, "TypeError", <<>>, -1, <<>>, 0, 0, <<>>)
    ELSE IF Readable(b, eof) THEN wait_msg(s, b, eof, failAt)
    ELSE Outcome(s, NoExc, <<>>, -1, <<>>, 0, 0, <<>>)

---------------------------------------------------------------------------
(* The peer.                                                               *)

Puback(p)   == << 64, 2 >> \o PackH(p)
Suback(p)   == << 144, 3 >> \o PackH(p) \o << 0 >>
Pingresp    == << 208, 0 >>
\* PUBLISH as a broker sends it; p is ignored at QoS 0
PublishPkt(qos, topic_bytes, p, payload) ==
    << 48 + qos * 2 >>
    \o EncodeLen(2 + Len(topic_bytes) + (IF qos > 0 THEN 2 ELSE 0) + Len(payload))
    \o PackH(Len(topic_bytes)) \o topic_bytes
    \o (IF qos > 0 THEN PackH(p) ELSE <<>>) \o payload

\* packets that break the protocol: a PUBACK of length 3, a PINGRESP of length 1
BadPuback   == << 64, 3, 0, 1, 0 >>
BadPingresp == << 208, 1, 0 >>

\* an incoming QoS 0 PUBLISH whose payload is the four bytes of PUBACK(1)
PublishOfPuback == PublishPkt(0, <<>>, 0, Puback(1))

---------------------------------------------------------------------------
(* The state machine: one action per call of the application, and the      *)
(* peer's steps.  A call that waits for bytes the peer has not sent is not *)
(* enabled until the peer has sent them or has closed.                     *)

\* main.py line 125: AsyncMQTTClient("picopower", ..., keepalive=60)
MainClient ==
    NewClient(<<112, 105, 99, 111, 112, 111, 119, 101, 114>>, NoBytes, NoBytes, 60)

\* the identifiers of the PUBACK packets of the peer that start within the
\* first n bytes of the stream
AckedIn(n) ==
    { UnpackH(SubSeq(rx, j + 2, j + 3)) :
        j \in { i \in 1..n : /\ rxStart[i] /\ rx[i] = 64
                              /\ i + 3 <= Len(rx) /\ rx[i + 1] = 2 } }

\* the identifiers this session has flushed in a QoS 1 PUBLISH (lines 215-218)
\* without having read the first byte of a PUBACK of the peer that carries
\* them; a new transport or the end of the transport starts from none.
\* They are followed in the behaviours that start with last.track set.
Unacked(op, in, o) ==
    IF ~last.track \/ op \in { "connect", "disconnect" } THEN {}
    ELSE IF op = "publish"
         THEN IF in.qos = 1 /\ o.flushes > 0
              THEN (last.unacked \cup { o.s.pid }) \ AckedIn(o.nread)
              ELSE last.unacked \ AckedIn(o.nread)
         ELSE last.unacked \ AckedIn(o.nread)

\* what `last` keeps of a call: its name, its inputs, the object before the
\* call (the object after it is `self`) and the number of sockets created
\* before it, its outcome, the bytes it read with their packet-start marks,
\* and the identifiers left unacknowledged
CallRecord(op, in, o, read, readStart, track, unacked) ==
    [op |-> op, in |-> in, pre |-> self, nsocks |-> Len(socks),
     exc |-> o.exc, arg |-> o.arg, ret |-> o.ret,
     written |-> o.written, flushes |-> o.flushes, nread |-> o.nread,
     cbs |-> o.cbs, read |-> read, readStart |-> readStart,
     track |-> track, unacked |-> unacked]

CallRead(op, in, o, read, readStart) ==
    CallRecord(op, in, o, read, readStart, last.track, Unacked(op, in, o))

Call(op, in, o) ==
    CallRead(op, in, o, SubSeq(rx, 1, o.nread), SubSeq(rxStart, 1, o.nread))

\* the bytes a call has read leave the stream
Consume(n) ==
    /\ rx' = SubSeq(rx, n + 1, Len(rx))
    /\ rxStart' = SubSeq(rxStart, n + 1, Len(rxStart))

\* main.py before asyncio.run(main()): mqtt() stands at line 122 with
\* mqc = None (line 121), sensor() at line 85, pulse_counter = 0 (line 74).
\* ex, dex: the exceptions the handlers of mqtt() hold; disc: the disconnect()
\* calls made on the current client; sent: what the current cycle has
\* published; v: the reading in hand; high, runs: whether the last reading
\* reached the threshold, and the maximal runs of such readings so far.
AppStart ==
    [pc |-> "start", mqc |-> FALSE, ex |-> NoExc, dex |-> NoExc, disc |-> 0,
     sent |-> <<>>, spc |-> "setup", current_state |-> 0, led |-> FALSE,
     pulse_counter |-> 0, v |-> 0, high |-> FALSE, runs |-> 0]

\* the state after construction of the client c
Started(c, track) ==
    /\ self = c
    /\ socks = <<>>
    /\ rx = <<>>
    /\ rxStart = <<>>
    /\ rxEof = FALSE
    /\ last = [op |-> "__init__", in |-> <<>>, pre |-> c, nsocks |-> 0,
               exc |-> NoExc, arg |-> <<>>, ret |-> -1, written |-> <<>>,
               flushes |-> 0, nread |-> 0, cbs |-> <<>>, read |-> <<>>,
               readStart |-> <<>>, track |-> track, unacked |-> {}]
    /\ app = AppStart

Constructed(c) == Started(c, FALSE)

Init == Constructed(MainClient)

SetCallback(f) ==
    LET o == set_callback(self, f)
    IN  /\ self' = o.s
        /\ last' = Call("set_callback", [f |-> f], o)
        /\ UNCHANGED <<socks, rx, rxStart, rxEof, app>>

SetLastWill(topic, msg, retain, qos) ==
    LET o == set_last_will(self, topic, msg, retain, qos)
    IN  /\ self' = o.s
        /\ last' = Call("set_last_will",
                        [topic |-> topic, msg |-> msg, retain |-> retain, qos |-> qos], o)
        /\ UNCHANGED <<socks, rx, rxStart, rxEof, app>>

\* a new socket is a new stream: nothing received yet
ConnectCall(clean_session, env) ==
    LET r == connect(self, socks, clean_session, env)
    IN  /\ self' = r.o.s
        /\ socks' = r.socks
        /\ rx' = <<>> /\ rxStart' = <<>> /\ rxEof' = FALSE
        /\ last' = CallRead("connect", [clean_session |-> clean_session, env |-> env],
                            r.o, SubSeq(env.resp, 1, r.o.nread),
                            [i \in 1..r.o.nread |-> i = 1])

Connect(clean_session, env) == ConnectCall(clean_session, env) /\ UNCHANGED app

DisconnectCall(failAt) ==
    LET r == disconnect(self, socks, failAt)
    IN  /\ self' = r.o.s
        /\ socks' = r.socks
        /\ rx' = <<>> /\ rxStart' = <<>> /\ rxEof' = FALSE
        /\ last' = Call("disconnect", [failAt |-> failAt], r.o)

Disconnect(failAt) == DisconnectCall(failAt) /\ UNCHANGED app

Ping(failAt) ==
    LET o == ping(self, failAt)
    IN  /\ self' = o.s
        /\ last' = Call("ping", [failAt |-> failAt], o)
        /\ UNCHANGED <<socks, rx, rxStart, rxEof, app>>

PublishCall(topic, msg, retain, qos, failAt) ==
    LET o == publish(self, rx, rxEof, topic, msg, retain, qos, failAt)
    IN  /\ o.exc # Blocked
        /\ o.s.pid <= MaxPid
        /\ self' = o.s
        /\ Consume(o.nread)
        /\ last' = Call("publish", [topic |-> topic, msg |-> msg, retain |-> retain,
                                    qos |-> qos, failAt |-> failAt], o)
        /\ UNCHANGED <<socks, rxEof>>

Publish(topic, msg, retain, qos, failAt) ==
    PublishCall(topic, msg, retain, qos, failAt) /\ UNCHANGED app

Subscribe(topic, qos, failAt) ==
    \E checked \in BOOLEAN :
    LET o == subscribe(self, rx, rxEof, topic, qos, failAt, checked)
    IN  /\ o.exc # Blocked
        /\ o.s.pid <= MaxPid
        /\ self' = o.s
        /\ Consume(o.nread)
        /\ last' = Call("subscribe", [topic |-> topic, qos |-> qos, failAt |-> failAt], o)
        /\ UNCHANGED <<socks, rxEof, app>>

WaitMsg(failAt) ==
    LET o == wait_msg(self, rx, rxEof, failAt)
    IN  /\ o.exc # Blocked
        /\ self' = o.s
        /\ Consume(o.nread)
        /\ last' = Call("wait_msg", [failAt |-> failAt], o)
        /\ UNCHANGED <<socks, rxEof, app>>

CheckMsg(failAt) ==
    LET o == check_msg(self, rx, rxEof, failAt)
    IN  /\ o.exc # Blocked
        /\ self' = o.s
        /\ Consume(o.nread)
        /\ last' = Call("check_msg", [failAt |-> failAt], o)
        /\ UNCHANGED <<socks, rxEof, app>>

\* what `last` holds after a step of the peer
PeerStep == Call("peer", <<>>, Outcome(self, NoExc, <<>>, -1, <<>>, 0, 0, <<>>))

\* the peer sends one packet on the current transport
PeerSend(pkt) ==
    /\ self.sock # 0
    /\ ~rxEof
    /\ rx' = rx \o pkt
    /\ rxStart' = rxStart \o [i \in 1..Len(pkt) |-> i = 1]
    /\ last' = PeerStep
    /\ UNCHANGED <<self, socks, rxEof, app>>

\* the peer closes the current transport
PeerClose ==
    /\ self.sock # 0
    /\ ~rxEof
    /\ rxEof' = TRUE
    /\ last' = PeerStep
    /\ UNCHANGED <<self, socks, rx, rxStart, app>>

---------------------------------------------------------------------------
(* Spec: one session with its peer.  The application connects, registers a *)
(* callback, publishes, subscribes, pings, polls and disconnects; the peer *)
(* acknowledges, sends a message of its own, breaks the protocol or closes;*)
(* the first transport call of ping and of publish may fail.  The         *)
(* peer sends no PUBLISH above QoS 0, so wait_msg and check_msg write      *)
(* nothing here; publish at QoS 2 is exercised in SpecPublish.             *)

MaxRx       == 8     \* bytes the peer may have sent that are still unread
MaxFail     == 1     \* the last transport call of an operation that may fail
FailAts     == 0..MaxFail

PeerPackets ==
    { Puback(p) : p \in 1..MaxPid }
    \cup { PublishOfPuback, BadPuback, BadPingresp }

Accepted == [fail |-> "none", failAt |-> 0, resp |-> <<32, 2, 0, 0>>]
Rejected == [fail |-> "none", failAt |-> 0, resp |-> <<32, 2, 0, 5>>]

Topic == << 97 >>            \* "a"
Payload == Bytes(<< 122 >>)  \* b"z"

Next ==
    \/ SetCallback("f")
    \/ Len(socks) < MaxSockets /\ Connect(TRUE, Accepted)
    \/ Disconnect(0)
    \/ \E k \in FailAts : Ping(k)
    \/ \E q \in 0..1, k \in FailAts : Publish(Topic, Payload, FALSE, q, k)
    \/ Subscribe(Topic, 0, 0)
    \/ WaitMsg(0)
    \/ CheckMsg(0)
    \/ \E pkt \in PeerPackets : Len(rx) + Len(pkt) <= MaxRx /\ PeerSend(pkt)
    \/ PeerClose

Spec == Init /\ [][Next]_vars

---------------------------------------------------------------------------
(* SpecConnect: the handshake and the life of the transport.  Clients with *)
(* and without credentials (one with a user name and no password, which    *)
(* makes connect fail while it builds CONNECT), with and without a last    *)
(* will; every step of connect may fail and the peer may answer CONNECT    *)
(* with any of the sampled four bytes, or close.                           *)

MaxConnects == 2     \* sockets connect() may create in SpecConnect

C1Client   == NewClient(<<99, 49>>, NoBytes, NoBytes, 0)                 \* "c1"
AuthClient == NewClient(<<99, 49>>, Some(<<117>>), Some(<<112>>), 300)   \* "u", "p"
NoPwClient == NewClient(<<99, 49>>, Some(<<117>>), NoBytes, 0)

InitConnect == \E c \in {MainClient, C1Client, AuthClient, NoPwClient} : Constructed(c)

\* the transport calls of the longest CONNECT: twelve writes and the drain
ConnectCalls == 13

ConnackSamples ==
    { <<b0, b1, b2, b3>> : b0 \in {32, 48}, b1 \in {2, 3}, b2 \in 0..3, b3 \in {0, 5} }

ConnectEnvsAll ==
    [fail : {"none"}, failAt : {0}, resp : ConnackSamples \cup {<<>>, <<32, 2, 0>>}]
    \cup [fail : {"none"}, failAt : 1..ConnectCalls, resp : {<<32, 2, 0, 0>>}]
    \cup [fail : {"socket", "getaddrinfo", "connect"}, failAt : {0}, resp : {<<>>}]

NextConnect ==
    \/ SetLastWill(<<119>>, Bytes(<<111, 102, 102>>), TRUE, 1)
    \/ \E c \in BOOLEAN, env \in ConnectEnvsAll :
           Len(socks) < MaxConnects /\ Connect(c, env)
    \/ \E k \in 0..2 : Disconnect(k)

SpecConnect == InitConnect /\ [][NextConnect]_vars

---------------------------------------------------------------------------
(* SpecHandshake: the CONNECT packet of every kind of session: no          *)
(* credentials, user name and password, a password alone, keepalive 0, 60, *)
(* 300 and 65535, no will or a will of any QoS and retain flag with an     *)
(* empty or a 200-byte message, either clean_session.  The peer accepts.   *)

FullClient   == NewClient(<<99, 49>>, Some(<<117>>), Some(<<112>>), 65535)
PwOnlyClient == NewClient(<<99, 49>>, NoBytes, Some(<<112>>), 0)

InitHandshake ==
    \E c \in {MainClient, C1Client, AuthClient, FullClient, PwOnlyClient} :
        Constructed(c)

NextHandshake ==
    \/ \E m \in { Bytes(<<>>), Bytes(Run(200)) }, r \in BOOLEAN, q \in 0..2 :
           SetLastWill(<<119>>, m, r, q)
    \/ \E c \in BOOLEAN : Len(socks) < MaxSockets /\ Connect(c, Accepted)
    \/ Disconnect(0)

SpecHandshake == InitHandshake /\ [][NextHandshake]_vars

---------------------------------------------------------------------------
(* SpecPublish: the arguments of publish.  Topics of 0, 1 and 2 bytes,     *)
(* payloads that are str or bytes, of 1 and 200 bytes and just below and   *)
(* at the size ceiling, every qos and retain, on a client before and after *)
(* connect.                                                                *)
(* The peer sends nothing, so a valid publish at qos 1 waits.              *)

PubTopics == { <<>>, <<97>>, <<233>> }      \* "", "a", "e" with an acute accent
PubPayloads ==
    { Str(<<122>>), Bytes(<<122>>), Bytes(Run(200)),
      Bytes(Run(2097147)), Bytes(Run(2097148)), Bytes(Run(2097149)) }

NextPublish ==
    \/ Len(socks) < MaxSockets /\ Connect(TRUE, Accepted)
    \/ \E t \in PubTopics, m \in PubPayloads, r \in BOOLEAN, q \in 0..2,
          k \in FailAts : Publish(t, m, r, q, k)

SpecPublish == Init /\ [][NextPublish]_vars

---------------------------------------------------------------------------
(* SpecWill: the arguments of set_last_will, on a client that is not       *)
(* connected.                                                              *)

WillTopics   == { <<>>, <<116>>, <<233>> }
WillPayloads == { Bytes(<<111>>), Str(<<111>>) }

NextWill ==
    \E t \in WillTopics, m \in WillPayloads, r \in BOOLEAN, q \in -1..3 :
        SetLastWill(t, m, r, q)

SpecWill == Init /\ [][NextWill]_vars

---------------------------------------------------------------------------
(* SpecDispatch: incoming packets.  The peer sends PUBLISH at QoS 0, 1 and *)
(* 2 with and without payload, a PUBLISH whose topic is not UTF-8, a       *)
(* PUBLISH whose remaining length is larger than what follows, PINGRESP    *)
(* and acknowledgements nobody waits for, or closes; the application       *)
(* registers a callback or not and calls wait_msg and check_msg, whose     *)
(* PUBACK write or drain may fail.                                         *)

MaxDispatchRx == 11    \* bytes the peer may have sent that are still unread

\* 30 08 00 01 61 00 01 7A 7A: remaining length 8, seven bytes follow
LongLenPublish == << 48, 8, 0, 1, 97, 0, 1, 122, 122 >>

DispatchPackets ==
    { PublishPkt(0, <<97>>, 0, <<122, 122>>),        \* 30 05 00 01 61 7A 7A
      PublishPkt(0, <<>>, 0, <<>>),                  \* 30 02 00 00
      PublishPkt(1, <<97>>, 1, <<122>>),             \* 32 06 00 01 61 00 01 7A
      PublishPkt(1, <<97>>, 258, <<>>),              \* 32 05 00 01 61 01 02
      PublishPkt(2, <<97>>, 1, <<>>),                \* 34 05 00 01 61 00 01
      PublishPkt(0, <<255>>, 0, <<122>>),            \* topic is not UTF-8
      LongLenPublish, Pingresp, Puback(1) }

NextDispatch ==
    \/ SetCallback("f")
    \/ Len(socks) < MaxSockets /\ Connect(TRUE, Accepted)
    \/ \E k \in 0..2 : WaitMsg(k)
    \/ \E k \in 0..2 : CheckMsg(k)
    \/ \E pkt \in DispatchPackets :
           Len(rx) + Len(pkt) <= MaxDispatchRx /\ PeerSend(pkt)
    \/ PeerClose

SpecDispatch == Init /\ [][NextDispatch]_vars

---------------------------------------------------------------------------
(* SpecAck: waiting for an acknowledgement.  The application registers a   *)
(* callback, publishes at QoS 1 and subscribes; before the acknowledgement *)
(* the peer may send a PUBLISH at QoS 0 or 1, an acknowledgement with      *)
(* another identifier or of the other kind, or close.                      *)

MaxAckRx == 12    \* bytes the peer may have sent that are still unread

PublishAZZ == PublishPkt(0, <<97>>, 0, <<122, 122>>)     \* 30 05 00 01 61 7A 7A
PublishQos1 == PublishPkt(1, <<97>>, 1, <<122>>)         \* 32 06 00 01 61 00 01 7A

AckPackets ==
    { PublishAZZ, PublishQos1, Puback(1), Puback(2), BadPuback, Suback(1), Suback(2) }

NextAck ==
    \/ SetCallback("f")
    \/ Len(socks) < MaxSockets /\ Connect(TRUE, Accepted)
    \/ Publish(Topic, Payload, FALSE, 1, 0)
    \/ Subscribe(Topic, 0, 0)
    \/ \E pkt \in AckPackets : Len(rx) + Len(pkt) <= MaxAckRx /\ PeerSend(pkt)
    \/ PeerClose

SpecAck == Init /\ [][NextAck]_vars

\* SpecOutstanding: the steps of SpecAck, with the unacknowledged identifiers
\* followed from the construction of the client on
InitOutstanding == Started(MainClient, TRUE)

SpecOutstanding == InitOutstanding /\ [][NextAck]_vars

---------------------------------------------------------------------------
(* SpecFrame: every operation of the client, with valid and with invalid   *)
(* arguments, on a client with and without transport; the peer sends an    *)
(* acknowledgement, a PINGRESP or a PUBLISH at QoS 1, or closes.           *)

MaxFrameRx == 8    \* bytes the peer may have sent that are still unread

FramePayloads == { Payload, Str(<<122>>), Bytes(Run(2097149)) }
FramePackets == { Puback(1), Pingresp, PublishQos1 }

NextFrame ==
    \/ SetCallback("f")
    \/ \E m \in { Bytes(<<111>>), Str(<<111>>) } : SetLastWill(<<119>>, m, FALSE, 1)
    \/ \E env \in {Accepted, Rejected} :
           Len(socks) < MaxSockets /\ Connect(TRUE, env)
    \/ Disconnect(0)
    \/ Ping(0)
    \/ \E m \in FramePayloads, q \in 0..2 : Publish(Topic, m, FALSE, q, 0)
    \/ Subscribe(Topic, 0, 0)
    \/ WaitMsg(0)
    \/ CheckMsg(0)
    \/ \E pkt \in FramePackets : Len(rx) + Len(pkt) <= MaxFrameRx /\ PeerSend(pkt)
    \/ PeerClose

SpecFrame == Init /\ [][NextFrame]_vars

---------------------------------------------------------------------------
(* SpecSubscribe: subscribe with topics of 1, 122, 123 and 251 bytes, on   *)
(* either build of struct; the peer answers with SUBACKs or closes.        *)

MaxSubRx == 10    \* bytes the peer may have sent that are still unread

SubTopics == { <<97>>, Run(122), Run(123), Run(251) }

NextSubscribe ==
    \/ SetCallback("f")
    \/ Len(socks) < MaxSockets /\ Connect(TRUE, Accepted)
    \/ \E t \in SubTopics, q \in 0..1 : Subscribe(t, q, 0)
    \/ \E p \in 1..MaxPid : Len(rx) + 5 <= MaxSubRx /\ PeerSend(Suback(p))
    \/ PeerClose

SpecSubscribe == Init /\ [][NextSubscribe]_vars

---------------------------------------------------------------------------
(* SpecFraming: wait_msg and check_msg against a peer that sends only      *)
(* well-formed packets: PINGRESP, PUBLISH at QoS 0, 1 and 2, PUBACK and    *)
(* SUBACK.                                                                 *)

MaxFramingRx == 10    \* bytes the peer may have sent that are still unread

WellFormedPackets ==
    { Pingresp, PublishAZZ, PublishQos1, PublishPkt(2, <<97>>, 1, <<>>),
      Puback(1), Suback(1) }

NextFraming ==
    \/ SetCallback("f")
    \/ Len(socks) < MaxSockets /\ Connect(TRUE, Accepted)
    \/ WaitMsg(0)
    \/ CheckMsg(0)
    \/ \E pkt \in WellFormedPackets :
           Len(rx) + Len(pkt) <= MaxFramingRx /\ PeerSend(pkt)
    \/ PeerClose

SpecFraming == Init /\ [][NextFraming]_vars

---------------------------------------------------------------------------
(* SpecLive: publish at QoS 1 against a peer that stays connected and      *)
(* sends well-formed packets only: PINGRESP, PUBLISH at QoS 0 on the       *)
(* topics "a" and "@", and PUBACK for identifier 1.  publish is a          *)
(* coroutine suspended in readexactly(); the event loop resumes it once    *)
(* the bytes it waits for have arrived, hence the weak fairness on it.     *)

MaxLiveRx == 12    \* bytes the peer may have sent that are still unread

PublishAt == PublishPkt(0, <<64>>, 0, <<122>>)            \* 30 04 00 01 40 7A

LivePackets == { Pingresp, PublishAZZ, PublishAt, Puback(1) }

PublishQos1Call == Publish(Topic, Payload, FALSE, 1, 0)

NextLive ==
    \/ Len(socks) < MaxSockets /\ Connect(TRUE, Accepted)
    \/ PublishQos1Call
    \/ \E pkt \in LivePackets : Len(rx) + Len(pkt) <= MaxLiveRx /\ PeerSend(pkt)

SpecLive == Init /\ [][NextLive]_vars /\ WF_vars(PublishQos1Call)

---------------------------------------------------------------------------
(* send_syslog (lib.py) and SpecSyslog: the application logs; socket(),    *)
(* setsockopt(), the encoding of the line or sendto() may raise.  The      *)
(* sockets it creates are entries of socks like those of connect.          *)

\* a variant of send_syslog without the except clause: a failure of sendto
\* reaches the caller (the finally clause still closes the socket)
send_syslog_no_except(sk, message, env) ==
    LET sk1 == Append(sk, "open")
        k   == Len(sk1)
        r(exc, socks1, printed, sent, closes) ==
            [exc |-> exc, socks |-> socks1, printed |-> printed, sent |-> sent,
             closes |-> closes]
    IN  IF env.fail = "socket" THEN r("OSError", sk, << message >>, <<>>, 0)
        ELSE IF env.fail = "setsockopt" THEN r("OSError", sk1, << message >>, <<>>, 0)
        ELSE IF env.fail = "encode" THEN r("UnicodeError", sk1, << message >>, <<>>, 0)
        ELSE IF env.fail = "sendto"
        THEN r(env.exc, CloseSock(sk1, k), << message >>, <<>>, 1)
        ELSE r(NoExc, CloseSock(sk1, k), << message >>, << message >>, 1)

\* send_syslog (lines 3-17).  env.fail names the call that raises: "socket"
\* (line 7), "setsockopt" (line 8), "encode" (line 11: an argument UTF-8
\* cannot encode), "sendto" (line 13, raising env.exc), or "none".  printed:
\* the print calls; sent: the datagrams handed to sendto that were sent;
\* closes: the close() calls made.
send_syslog(sk, message, env) ==
    LET sk1 == Append(sk, "open")
        k   == Len(sk1)
        r(exc, socks1, printed, sent, closes) ==
            [exc |-> exc, socks |-> socks1, printed |-> printed, sent |-> sent,
             closes |-> closes]
    IN  IF env.fail = "socket" THEN r("OSError", sk, << message >>, <<>>, 0)
        ELSE IF env.fail = "setsockopt" THEN r("OSError", sk1, << message >>, <<>>, 0)
        ELSE IF env.fail = "encode" THEN r("UnicodeError", sk1, << message >>, <<>>, 0)
        ELSE IF env.fail = "sendto"
        THEN r(NoExc, CloseSock(sk1, k),
               << message, "Syslog send failed: " \o env.exc >>, <<>>, 1)
        ELSE r(NoExc, CloseSock(sk1, k), << message >>, << message >>, 1)

SendSyslogCall(message, env) ==
    LET r == send_syslog(socks, message, env)
    IN  /\ socks' = r.socks
        /\ last' = [op |-> "send_syslog", in |-> [message |-> message, env |-> env],
                    pre |-> self, nsocks |-> Len(socks), exc |-> r.exc,
                    arg |-> <<>>, ret |-> -1, written |-> <<>>, flushes |-> 0,
                    nread |-> 0, cbs |-> <<>>, read |-> <<>>, readStart |-> <<>>,
                    track |-> last.track, unacked |-> last.unacked, printed |-> r.printed, sent |-> r.sent, closes |-> r.closes]
        /\ UNCHANGED <<self, rx, rxStart, rxEof>>

SendSyslog(message, env) == SendSyslogCall(message, env) /\ UNCHANGED app

MaxSyslogSockets == 4    \* sockets send_syslog may create in one behaviour

SyslogEnvs ==
    [fail : {"none", "socket", "setsockopt", "encode"}, exc : {NoExc}]
    \cup [fail : {"sendto"}, exc : {"OSError", "Exception"}]

\* main.py lines 127 and 142
SyslogMessages == { "MQTT connected successfully", "MQTT error" }

NextSyslog ==
    \E m \in SyslogMessages, env \in SyslogEnvs :
        Len(socks) < MaxSyslogSockets /\ SendSyslog(m, env)

SpecSyslog == Init /\ [][NextSyslog]_vars

---------------------------------------------------------------------------
(* The task mqtt() of main.py (lines 118-143) and SpecMqtt.  One action    *)
(* per statement that can raise or suspend; app.pc names the statement the *)
(* task stands at, "dead" after an exception has left mqtt(): gather then  *)
(* ends main() and the program.  The broker may refuse or drop the         *)
(* connection, any write may fail, and send_syslog may fail at socket()    *)
(* (raising) or at sendto() (caught inside send_syslog).                   *)

\* 'homeassistant/sensor/picopower/config' (line 130)
ConfigTopic ==
    << 104, 111, 109, 101, 97, 115, 115, 105, 115, 116, 97, 110, 116, 47,
       115, 101, 110, 115, 111, 114, 47, 112, 105, 99, 111, 112, 111, 119,
       101, 114, 47, 99, 111, 110, 102, 105, 103 >>

\* "homeassistant/sensor/picopower/state" (line 131)
StateTopic ==
    << 104, 111, 109, 101, 97, 115, 115, 105, 115, 116, 97, 110, 116, 47,
       115, 101, 110, 115, 111, 114, 47, 112, 105, 99, 111, 112, 111, 119,
       101, 114, 47, 115, 116, 97, 116, 101 >>

\* json.dumps of the dict of lines 65-71: 239 ASCII characters, kept as a run
ENERGY_CONFIG == Run(239)

\* str(n) for n >= 0, as code points
RECURSIVE StrOfInt(_)
StrOfInt(n) ==
    IF n < 10 THEN << 48 + n >> ELSE StrOfInt(n \div 10) \o << 48 + (n % 10) >>

\* publish_string (lines 236-250) with the default retain, qos and encoding
publish_string(s, b, eof, topic, msg, failAt) ==
    publish(s, b, eof, topic, Bytes(Utf8Encode(msg)), FALSE, 0, failAt)

PublishStringCall(topic, msg, failAt) ==
    PublishCall(topic, Bytes(Utf8Encode(msg)), FALSE, 0, failAt)

MqttConnectEnvs ==
    { Accepted, Rejected, [fail |-> "none", failAt |-> 0, resp |-> <<>>] }
    \cup [fail : {"socket", "getaddrinfo", "connect"}, failAt : {0}, resp : {<<>>}]

MqttSyslogEnvs ==
    [fail : {"none", "socket"}, exc : {NoExc}]
    \cup [fail : {"sendto"}, exc : {"OSError"}]

\* the task moves to pc when the call it made returned, to onExc with the
\* exception in field f ("ex" or "dex") when the call raised exc
MqttAfter(exc, pc, onExc, f) ==
    IF exc = NoExc THEN [app EXCEPT !.pc = pc]
    ELSE [app EXCEPT !.pc = onExc, ![f] = exc]

\* a send_syslog call of mqtt()
MqttLog(message, env, pc, onExc, f) ==
    /\ SendSyslogCall(message, env)
    /\ app' = LET exc == send_syslog(socks, message, env).exc
              IN  [MqttAfter(exc, pc, onExc, f)
                      EXCEPT !.mqc = IF app.pc \in {"clean", "discerr"} /\ exc = NoExc
                                     THEN FALSE ELSE app.mqc]

\* line 122, before the loop and outside every try
MqttStart(env) ==
    /\ app.pc = "start"
    /\ MqttLog("MQTT client starting", env, "new", "dead", "ex")

\* line 125: a fresh client; the closed sockets of the clients and of the
\* log lines before it are forgotten
MqttNewClient ==
    /\ app.pc = "new"
    /\ self' = MainClient
    /\ socks' = SelectSeq(socks, LAMBDA k : k = "open")
    /\ rx' = <<>> /\ rxStart' = <<>> /\ rxEof' = FALSE
    /\ last' = CallRecord("__init__", <<>>,
                          Outcome(MainClient, NoExc, <<>>, -1, <<>>, 0, 0, <<>>),
                          <<>>, <<>>, last.track, {})
    /\ app' = [app EXCEPT !.pc = "connect", !.mqc = TRUE, !.disc = 0,
                          !.ex = NoExc, !.dex = NoExc, !.sent = <<>>]

\* line 126
MqttConnect(env) ==
    /\ app.pc = "connect"
    /\ ConnectCall(TRUE, env)
    /\ app' = MqttAfter(connect(self, socks, TRUE, env).o.exc,
                        "connected", "handler", "ex")

\* line 127
MqttConnectedLog(env) ==
    /\ app.pc = "connected"
    /\ MqttLog("MQTT connected successfully", env, "config", "handler", "ex")

\* line 130
MqttPublishConfig(failAt) ==
    /\ app.pc = "config"
    /\ PublishStringCall(ConfigTopic, ENERGY_CONFIG, failAt)
    /\ app' = LET exc == publish_string(self, rx, rxEof, ConfigTopic,
                                        ENERGY_CONFIG, failAt).exc
              IN  [MqttAfter(exc, "state", "handler", "ex")
                      EXCEPT !.sent = IF exc = NoExc THEN << "config" >> ELSE <<>>]

\* line 131
MqttPublishState(failAt) ==
    /\ app.pc = "state"
    /\ PublishStringCall(StateTopic, StrOfInt(app.pulse_counter), failAt)
    /\ app' = LET exc == publish_string(self, rx, rxEof, StateTopic,
                                        StrOfInt(app.pulse_counter), failAt).exc
              IN  [MqttAfter(exc, "sleep", "handler", "ex")
                      EXCEPT !.sent = IF exc = NoExc
                                      THEN Append(app.sent, "state") ELSE app.sent]

\* line 132
MqttSleep ==
    /\ app.pc = "sleep"
    /\ app' = [app EXCEPT !.pc = "config", !.sent = <<>>]
    /\ UNCHANGED <<self, socks, rx, rxStart, rxEof, last>>

\* lines 134-137: the handler disconnects the client it holds
MqttHandler(failAt) ==
    /\ app.pc = "handler"
    /\ IF app.mqc
       THEN /\ DisconnectCall(failAt)
            /\ app' = [MqttAfter(disconnect(self, socks, failAt).o.exc,
                                 "clean", "discerr", "dex")
                          EXCEPT !.disc = app.disc + 1]
       ELSE /\ app' = [app EXCEPT !.pc = "report"]
            /\ UNCHANGED <<self, socks, rx, rxStart, rxEof, last>>

\* line 138, inside the inner try; then line 141
MqttCleanLog(env) ==
    /\ app.pc = "clean"
    /\ MqttLog("MQTT disconnected cleanly", env, "report", "discerr", "dex")

\* line 140, in the inner handler and outside every try; then line 141
MqttDisconnectErrorLog(env) ==
    /\ app.pc = "discerr"
    /\ MqttLog("MQTT disconnect error: " \o app.dex, env, "report", "dead", "ex")

\* line 142, in the handler and outside every try
MqttReport(env) ==
    /\ app.pc = "report"
    /\ MqttLog("MQTT error: " \o app.ex \o ", reconnecting in 5 seconds", env,
               "pause", "dead", "ex")

\* line 143
MqttPause ==
    /\ app.pc = "pause"
    /\ app' = [app EXCEPT !.pc = "new"]
    /\ UNCHANGED <<self, socks, rx, rxStart, rxEof, last>>

NextMqtt ==
    \/ \E env \in MqttSyslogEnvs : MqttStart(env)
    \/ MqttNewClient
    \/ \E env \in MqttConnectEnvs : MqttConnect(env)
    \/ \E env \in MqttSyslogEnvs : MqttConnectedLog(env)
    \/ \E k \in FailAts : MqttPublishConfig(k)
    \/ \E k \in FailAts : MqttPublishState(k)
    \/ MqttSleep
    \/ \E k \in 0..2 : MqttHandler(k)
    \/ \E env \in MqttSyslogEnvs : MqttCleanLog(env)
    \/ \E env \in MqttSyslogEnvs : MqttDisconnectErrorLog(env)
    \/ \E env \in MqttSyslogEnvs : MqttReport(env)
    \/ MqttPause

\* the scheduler of asyncio resumes a task that is ready
SpecMqtt == Init /\ [][NextMqtt]_vars /\ WF_vars(NextMqtt)

---------------------------------------------------------------------------
(* The task sensor() of main.py (lines 76-115) and SpecSensor.  The light  *)
(* sensor returns any 16-bit reading or fails on the bus; send_syslog may  *)
(* fail as in SpecMqtt.  app.spc names the statement the task stands at.   *)

LIGHT_SENSOR_PULSE_THRESHOLD == 40

MaxPulses == 3       \* pulses counted in one behaviour

\* values of tsl2591_read_ch0 (lines 56-60)
Readings == { 0, 39, 40, 65535 }

\* line 85, before the loop and outside every try
SensorSetup(env) ==
    /\ app.spc = "setup"
    /\ SendSyslogCall("Sensor initialized", env)
    /\ app' = [app EXCEPT !.spc = IF send_syslog(socks, "Sensor initialized", env).exc
                                     = NoExc THEN "init" ELSE "dead"]

\* lines 89-94: led.off(), tsl2591_init (ok: it does not raise), the log line
\* and current_state = 0
SensorInit(ok, env) ==
    /\ app.spc = "init"
    /\ IF ok
       THEN /\ SendSyslogCall("Sensor started", env)
            /\ app' = IF send_syslog(socks, "Sensor started", env).exc = NoExc
                      THEN [app EXCEPT !.spc = "read", !.led = FALSE,
                                       !.current_state = 0]
                      ELSE [app EXCEPT !.spc = "error", !.led = FALSE]
       ELSE /\ app' = [app EXCEPT !.spc = "error", !.led = FALSE]
            /\ UNCHANGED <<self, socks, rx, rxStart, rxEof, last>>

\* lines 97-111: one round of the inner loop.  r: the reading, or -1 when
\* the read raises.  high and runs follow the readings themselves.
SensorRead(r) ==
    /\ app.spc = "read"
    /\ app.pulse_counter < MaxPulses
    /\ app' =
         IF r = -1 THEN [app EXCEPT !.spc = "error"]
         ELSE LET seen == [app EXCEPT
                             !.v = r,
                             !.high = r >= LIGHT_SENSOR_PULSE_THRESHOLD,
                             !.runs = IF r >= LIGHT_SENSOR_PULSE_THRESHOLD /\ ~app.high
                                      THEN app.runs + 1 ELSE app.runs]
              IN  IF r >= LIGHT_SENSOR_PULSE_THRESHOLD /\ app.current_state = 0
                  THEN [seen EXCEPT !.pulse_counter = app.pulse_counter + 1,
                                    !.current_state = 1, !.led = TRUE]
                  ELSE IF r < LIGHT_SENSOR_PULSE_THRESHOLD /\ app.current_state # 0
                  THEN [seen EXCEPT !.current_state = 0, !.led = FALSE]
                  ELSE seen
    /\ UNCHANGED <<self, socks, rx, rxStart, rxEof, last>>

\* line 114, in the handler and outside every try
SensorErrorLog(env) ==
    /\ app.spc = "error"
    /\ SendSyslogCall("Sensor error, restarting in 5 seconds", env)
    /\ app' = [app EXCEPT
                 !.spc = IF send_syslog(socks, "Sensor error, restarting in 5 seconds",
                                        env).exc = NoExc THEN "pause" ELSE "dead"]

\* line 115; the closed sockets of the log lines are forgotten
SensorPause ==
    /\ app.spc = "pause"
    /\ app' = [app EXCEPT !.spc = "init"]
    /\ socks' = SelectSeq(socks, LAMBDA k : k = "open")
    /\ UNCHANGED <<self, rx, rxStart, rxEof, last>>

NextSensor ==
    \/ \E env \in MqttSyslogEnvs : SensorSetup(env)
    \/ \E ok \in BOOLEAN, env \in MqttSyslogEnvs : SensorInit(ok, env)
    \/ \E r \in Readings \cup {-1} : SensorRead(r)
    \/ \E env \in MqttSyslogEnvs : SensorErrorLog(env)
    \/ SensorPause

SpecSensor == Init /\ [][NextSensor]_vars

---------------------------------------------------------------------------
(* SpecCodec: the remaining-length codec on its own.  A length n is        *)
(* encoded as publish and connect encode it, the bytes are put on the      *)
(* stream, and _recv_len decodes them.                                     *)

CodecValues ==
    (0 .. 130) \cup (16380 .. 16390) \cup (2097148 .. 2097153) \cup { 268435455 }

\* the length to encode is chosen
InitCodec ==
    \E n \in CodecValues :
        /\ self = [MainClient EXCEPT !.sock = 1, !.reader = 1, !.writer = 1]
        /\ socks = << "open" >>
        /\ rx = <<>>
        /\ rxStart = <<>>
        /\ rxEof = FALSE
        /\ last = CallRecord("input", [n |-> n],
                             Outcome(self, NoExc, <<>>, -1, <<>>, 0, 0, <<>>),
                             <<>>, <<>>, FALSE, {})
        /\ app = AppStart

\* the encoding loop runs on n and its bytes arrive on the stream
EncodeStep ==
    /\ last.op = "input"
    /\ LET bytes == EncodeLen(last.in.n)
       IN  /\ rx' = bytes
           /\ rxStart' = [i \in 1..Len(bytes) |-> i = 1]
           /\ last' = CallRead("encode", last.in,
                               Outcome(self, NoExc, <<>>, -1, bytes, 0, 0, <<>>),
                               <<>>, <<>>)
    /\ UNCHANGED <<self, socks, rxEof, app>>

\* _recv_len reads the stream
RecvLenStep ==
    /\ last.op = "encode"
    /\ LET r == RecvLen(rx, 1, 0, 1)
       IN  /\ r.ok
           /\ last' = Call("_recv_len", last.in,
                           Outcome(self, NoExc, <<>>, r.n, last.written, 0,
                                   r.next - 1, <<>>))
           /\ Consume(r.next - 1)
    /\ UNCHANGED <<self, socks, rxEof, app>>

NextCodec == EncodeStep \/ RecvLenStep

SpecCodec == InitCodec /\ [][NextCodec]_vars

---------------------------------------------------------------------------
(* The claims.                                                             *)

\* the call just finished is `op`
Did(op) == last.op = op

\* it raised
Raised == last.exc # NoExc

\* the bytes it read hold, at a packet start, the packet pkt
ReadPacket(pkt) ==
    \E i \in 1..Len(last.read) :
        /\ last.readStart[i]
        /\ i + Len(pkt) - 1 <= Len(last.read)
        /\ SubSeq(last.read, i, i + Len(pkt) - 1) = pkt

\* C1: publish(topic, payload, qos=1) returns only after a PUBACK packet
\* carrying the identifier this publish wrote has been received from the
\* peer, whatever else the peer sends first.
C1_ReturnsOnlyOnItsPuback ==
    (Did("publish") /\ last.in.qos = 1 /\ ~Raised) => ReadPacket(Puback(self.pid))

\* C4 as claimed: an error raised by publish, subscribe, ping, wait_msg or
\* check_msg on a connected session leaves the client disconnected: the
\* socket is closed and sock, _reader and _writer are None.
SessionOps == {"publish", "subscribe", "ping", "wait_msg", "check_msg"}

C8_SubscribeNeedsCallback ==
    (Did("subscribe") /\ last.pre.cb = None) =>
        /\ last.exc = "MQTTException"
        /\ last.written = <<>> /\ last.flushes = 0 /\ last.nread = 0
        /\ self = last.pre

\* subscribe was refused on a connected session whose peer has sent bytes
C8_Witness ==
    /\ Did("subscribe") /\ last.pre.cb = None /\ Raised
    /\ self.writer # 0 /\ Len(rx) > 0

\* C2: when connect() fails, the socket that attempt opened has been closed
\* and sock, _reader and _writer are None once the error reaches the caller.
C2_ConnectFailureCleansUp ==
    (Did("connect") /\ Raised) =>
        /\ self.sock = 0 /\ self.reader = 0 /\ self.writer = 0
        /\ Len(socks) > last.nsocks => socks[Len(socks)] = "closed"

\* connect opened a socket, sent CONNECT and was refused with return code 5
C2_Witness ==
    /\ Did("connect") /\ last.exc = "MQTTException" /\ last.arg = <<5>>
    /\ Len(socks) > last.nsocks /\ last.flushes = 1 /\ last.nread = 4

\* C3: after disconnect(), whether it returned or raised because the write
\* or the flush of DISCONNECT failed, the socket has been closed and sock,
\* _reader and _writer are None.
C3_DisconnectAlwaysCleansUp ==
    Did("disconnect") =>
        /\ self.sock = 0 /\ self.reader = 0 /\ self.writer = 0
        /\ last.pre.sock # 0 => socks[last.pre.sock] = "closed"

\* disconnect on a connected client raised because the write failed
C3_Witness ==
    /\ Did("disconnect") /\ last.exc = "OSError" /\ last.written = <<>>
    /\ last.pre.sock # 0 /\ last.pre.writer # 0

\* C5: publish(..., qos=2) raises NotImplementedError before it writes a
\* byte, flushes or allocates a packet identifier.
C5_Qos2RejectedBeforeIO ==
    (Did("publish") /\ last.in.qos = 2 /\ last.exc = "NotImplementedError") =>
        /\ last.written = <<>> /\ last.flushes = 0
        /\ self.pid = last.pre.pid

\* the remaining length the caller's arguments give: 2+T+P, +2 when qos > 0
ClaimedRemaining(in) ==
    2 + BLen(Utf8Encode(in.topic)) + BLen(in.msg.val) + (IF in.qos > 0 THEN 2 ELSE 0)

\* C6: a publish rejected for its input (a payload that is not bytes, or a
\* remaining length of 2,097,152 or more) raises before any write, flush or
\* read and leaves every field of the session as it was.
C6_InvalidPublishHasNoEffect ==
    (Did("publish")
       /\ (last.in.msg.type # "bytes" \/ ClaimedRemaining(last.in) >= 2097152)) =>
        /\ Raised
        /\ last.written = <<>> /\ last.flushes = 0 /\ last.nread = 0
        /\ self = last.pre

\* a publish of exactly 2,097,152 remaining bytes was refused on a connected
\* session that has allocated an identifier before
C6_Witness ==
    /\ Did("publish") /\ last.in.msg.type = "bytes"
    /\ ClaimedRemaining(last.in) = 2097152 /\ last.exc = "MQTTException"
    /\ self.writer # 0 /\ self.pid > 0

\* the remaining-length field of n < 2,097,152, byte by byte
RemainingLengthField(n) ==
    IF n < 128 THEN << n >>
    ELSE IF n < 16384 THEN << 128 + (n % 128), n \div 128 >>
    ELSE << 128 + (n % 128), 128 + ((n \div 128) % 128), n \div 16384 >>

\* C7: publish with a bytes payload at qos 0 writes one PUBLISH frame (0x30 |
\* retain, the remaining length 2+T+P, the topic length, the topic, the
\* payload, no identifier), flushes once and reads nothing;
\* publish("a", b"z") writes 30 04 00 01 61 7A.
C7_Qos0Frame ==
    (Did("publish") /\ last.in.msg.type = "bytes" /\ last.in.qos = 0
       /\ ClaimedRemaining(last.in) < 2097152
       /\ last.pre.writer # 0 /\ last.in.failAt = 0) =>
        LET topic_bytes == Utf8Encode(last.in.topic)
        IN  /\ ~Raised
            /\ last.written =
                  << 48 + (IF last.in.retain THEN 1 ELSE 0) >>
                  \o RemainingLengthField(ClaimedRemaining(last.in))
                  \o << Len(topic_bytes) \div 256, Len(topic_bytes) % 256 >>
                  \o topic_bytes \o last.in.msg.val
            /\ last.flushes = 1 /\ last.nread = 0
            /\ (last.in.topic = <<97>> /\ last.in.msg.val = <<122>> /\ ~last.in.retain)
                  => last.written = << 48, 4, 0, 1, 97, 122 >>

\* publish("a", b"z", qos=0, retain=False) has written 30 04 00 01 61 7A
C7_Witness ==
    /\ Did("publish") /\ last.in.qos = 0 /\ ~Raised
    /\ last.in.topic = <<97>> /\ last.in.msg = Bytes(<<122>>) /\ ~last.in.retain
    /\ last.written = << 48, 4, 0, 1, 97, 122 >>

\* C9: set_last_will rejects a qos outside {0,1,2}, an empty topic and a
\* payload that is not bytes, and then changes no field and does no I/O; an
\* accepted call stores the topic, the payload, qos and retain it was given.
C9_LastWillValidation ==
    Did("set_last_will") =>
        IF last.in.qos \notin {0, 1, 2} \/ last.in.topic = <<>>
             \/ last.in.msg.type # "bytes"
        THEN /\ Raised
             /\ self = last.pre
             /\ last.written = <<>> /\ last.flushes = 0 /\ last.nread = 0
        ELSE /\ ~Raised
             /\ self.lw_topic = Some(Utf8Encode(last.in.topic))
             /\ self.lw_msg = Some(last.in.msg.val)
             /\ self.lw_qos = last.in.qos
             /\ self.lw_retain = last.in.retain

\* a call with qos 3 was rejected while a will was stored, which is intact
C9_Witness ==
    /\ Did("set_last_will") /\ last.in.qos = 3 /\ Raised
    /\ self.lw_topic = Some(<<195, 169>>) /\ self.lw_qos = 2 /\ self.lw_retain

\* C10: for a 4-byte CONNACK, connect fails with the raw response when byte 0
\* is not 0x20 or byte 1 is not 0x02; otherwise fails with byte 3 when it is
\* not 0; otherwise returns bit 0 of byte 2.
C10_ConnackDecides ==
    (Did("connect") /\ last.nread = 4) =>
        LET resp == last.in.env.resp
        IN  IF resp[1] # 32 \/ resp[2] # 2
            THEN last.exc = "MQTTException" /\ last.arg = resp
            ELSE IF resp[4] # 0
            THEN last.exc = "MQTTException" /\ last.arg = << resp[4] >>
            ELSE ~Raised /\ last.ret = resp[3] % 2

\* CONNACK 20 02 03 00 was accepted and connect returned 1
C10_Witness ==
    /\ Did("connect") /\ last.in.env.resp = <<32, 2, 3, 0>>
    /\ ~Raised /\ last.ret = 1 /\ self.sock # 0

\* the connect of the scenario: client id "c1", no credentials, no last will,
\* keepalive 0, clean_session=True, every transport call succeeds
C11_Scenario ==
    /\ Did("connect")
    /\ last.pre.client_id = <<99, 49>>
    /\ last.pre.user = NoBytes /\ last.pre.pswd = NoBytes
    /\ last.pre.lw_topic = NoBytes /\ last.pre.keepalive = 0
    /\ last.in.clean_session
    /\ last.in.env.fail = "none" /\ last.in.env.failAt = 0

\* C11 as claimed: connecting with client id "c1", no credentials, no will,
\* keepalive 0 and clean_session=True writes
\* 10 0C 00 04 4D 51 54 54 04 02 00 00 00 02 63 31 (remaining length 12), and
\* the CONNACK 20 02 00 00 makes connect return session_present = 0.
C11_ConnectBytesAsClaimed ==
    C11_Scenario =>
        /\ last.written = << 16, 12, 0, 4, 77, 81, 84, 84, 4, 2, 0, 0, 0, 2, 99, 49 >>
        /\ last.in.env.resp = <<32, 2, 0, 0>> => ~Raised /\ last.ret = 0

\* C11 as amended: the bytes written are
\* 10 0E 00 04 4D 51 54 54 04 02 00 00 00 02 63 31: the remaining length is 14,
\* the number of bytes that follow it; the CONNACK 20 02 00 00 makes connect
\* return session_present = 0 after one flush and a read of four bytes.
C11_ConnectBytes ==
    C11_Scenario =>
        /\ last.written = << 16, 14, 0, 4, 77, 81, 84, 84, 4, 2, 0, 0, 0, 2, 99, 49 >>
        /\ last.written[2] = Len(last.written) - 2
        /\ last.in.env.resp = <<32, 2, 0, 0>> =>
              ~Raised /\ last.ret = 0 /\ last.flushes = 1 /\ last.nread = 4

\* the scenario has run: CONNECT was sent, 20 02 00 00 was read, 0 returned
C11_Witness ==
    /\ C11_Scenario /\ last.in.env.resp = <<32, 2, 0, 0>>
    /\ ~Raised /\ last.ret = 0 /\ Len(last.written) = 16 /\ self.writer # 0

\* the callback invocation cb("a", b"zz")
CallbackAZZ == << "f", <<97>>, <<122, 122>> >>

\* C12 as claimed: when the incoming stream holds exactly
\* 30 08 00 01 61 00 01 7A 7A, one wait_msg() call invokes the registered
\* callback exactly once with ("a", b"zz"), writes no PUBACK, and completes.
C12_LongLenStreamDelivers ==
    (Did("wait_msg") /\ last.pre.cb # None /\ last.read = LongLenPublish) =>
        /\ ~Raised
        /\ last.cbs = << CallbackAZZ >>
        /\ last.written = <<>>

\* C12 as amended: the QoS 0 PUBLISH of topic "a" and payload "zz" is
\* 30 05 00 01 61 7A 7A; when the stream holds exactly these bytes one
\* wait_msg() call invokes the callback once with ("a", b"zz"), writes and
\* flushes nothing and returns the opcode.  On 30 08 00 01 61 00 01 7A 7A the
\* call waits for an eighth byte of the packet body: it does not complete
\* while the peer keeps the stream open, and raises EOFError without a
\* callback when the peer closes.
C12_Qos0PublishDelivers ==
    /\ (Did("wait_msg") /\ last.pre.cb # None
          /\ last.read = << 48, 5, 0, 1, 97, 122, 122 >>) =>
            /\ ~Raised /\ last.ret = 48
            /\ last.cbs = << CallbackAZZ >>
            /\ last.written = <<>> /\ last.flushes = 0
    /\ (Did("wait_msg") /\ last.read = LongLenPublish) =>
            last.exc = "EOFError" /\ last.cbs = <<>>
    /\ (self.reader # 0 /\ rx = LongLenPublish /\ ~rxEof) =>
            wait_msg(self, rx, rxEof, 0).exc = Blocked

\* wait_msg has read 30 05 00 01 61 7A 7A and called cb("a", b"zz")
C12_Witness ==
    /\ Did("wait_msg") /\ last.read = << 48, 5, 0, 1, 97, 122, 122 >>
    /\ last.cbs = << CallbackAZZ >> /\ ~Raised /\ rx = <<>>

\* the lengths the claim names
C13_Lengths == { 0, 127, 128, 16383, 16384, 2097151 }

\* C13: for every n in {0, 127, 128, 16383, 16384, 2097151}, _recv_len on the
\* bytes of the encoding loop yields n; the encoding is one byte for n <= 127,
\* every byte but the last has its high bit set and the last has it clear.
C13_CodecRoundTrip ==
    (Did("_recv_len") /\ last.in.n \in C13_Lengths) =>
        LET bytes == last.written
        IN  /\ last.ret = last.in.n
            /\ last.read = bytes /\ rx = <<>>
            /\ last.in.n <= 127 => Len(bytes) = 1
            /\ \A i \in 1..Len(bytes) : (bytes[i] >= 128) <=> (i < Len(bytes))
            /\ \A i \in 1..Len(bytes) : bytes[i] \in 0..255

\* 2,097,151 went through FF FF 7F and back
C13_Witness ==
    /\ Did("_recv_len") /\ last.in.n = 2097151
    /\ last.written = << 255, 255, 127 >> /\ last.ret = 2097151

\* C14: send_syslog never propagates a failure of sendto (it is caught and
\* reported by print), and whenever the socket was created and configured
\* the socket has been closed exactly once when send_syslog returns.
C14_SyslogSendFailureContained ==
    Did("send_syslog") =>
        /\ last.in.env.fail = "sendto" =>
              /\ ~Raised
              /\ Len(last.printed) = 2
              /\ last.printed[2] = "Syslog send failed: " \o last.in.env.exc
              /\ last.sent = <<>>
        /\ (~Raised \/ last.in.env.fail \in {"none", "sendto"}) =>
              /\ ~Raised
              /\ Len(socks) = last.nsocks + 1
              /\ socks[Len(socks)] = "closed"
              /\ last.closes = 1

\* sendto raised OSError: the failure was printed, the socket closed once
C14_Witness ==
    /\ Did("send_syslog") /\ last.in.env = [fail |-> "sendto", exc |-> "OSError"]
    /\ ~Raised /\ last.closes = 1 /\ socks[Len(socks)] = "closed"
    /\ last.printed[Len(last.printed)] = "Syslog send failed: OSError"

\* C15: while publish(qos=1) or subscribe waits for its acknowledgement, a
\* complete PUBLISH that arrives before the PUBACK/SUBACK is consumed as one
\* packet and delivered to the registered callback, not skipped byte by byte.
C15_AckWaitDelivers ==
    (last.op \in {"publish", "subscribe"} /\ ~Raised /\ last.pre.cb # None
       /\ ReadPacket(PublishAZZ)) =>
        \E i \in 1..Len(last.cbs) : last.cbs[i] = CallbackAZZ

\* the fields of the PUBLISH a call has read, taken from the bytes themselves
\* (remaining lengths below 128: one length byte)
InQos == (last.read[1] \div 2) % 4
InRemaining == last.read[2]
InTopicLen == last.read[3] * 256 + last.read[4]
InTopic == SubSeq(last.read, 5, 4 + InTopicLen)
InIdLen == IF InQos # 0 THEN 2 ELSE 0
InPayload == SubSeq(last.read, 5 + InTopicLen + InIdLen, Len(last.read))

\* wait_msg (directly or through check_msg) has read a PUBLISH with a callback
\* registered
C16_ReadPublish ==
    /\ last.op \in {"wait_msg", "check_msg"}
    /\ last.pre.cb # None
    /\ Len(last.read) >= 1 /\ last.read[1] \div 16 = 3

\* C16: for an incoming PUBLISH processed by wait_msg, QoS bits 1: the
\* callback is invoked with (topic, payload) first, then PUBACK 40 02 with
\* the identifier of the PUBLISH is written and flushed before wait_msg
\* returns; QoS bits 0: no PUBACK is written.  The payload has length
\* remaining_length - 2 - topic_length - (2 if the QoS bits are nonzero).
C16_PublishThenPuback ==
    /\ (C16_ReadPublish /\ ~Raised) =>
         /\ Len(last.read) = 2 + InRemaining
         /\ last.cbs = << << last.pre.cb, InTopic, InPayload >> >>
         /\ Len(InPayload) = InRemaining - 2 - InTopicLen - InIdLen
         /\ InQos = 1 =>
               /\ last.written = << 64, 2, last.read[5 + InTopicLen],
                                    last.read[6 + InTopicLen] >>
               /\ last.flushes = 1
         /\ InQos = 0 => last.written = <<>> /\ last.flushes = 0
    \* the callback comes first: it has run when the PUBACK cannot be sent
    /\ (C16_ReadPublish /\ last.exc = "OSError") =>
         /\ InQos = 1
         /\ last.cbs = << << last.pre.cb, InTopic, InPayload >> >>
         /\ last.flushes = 0

\* 32 05 00 01 61 01 02 was delivered as ("a", b"") and answered 40 02 01 02
C16_Witness ==
    /\ Did("wait_msg") /\ last.read = << 50, 5, 0, 1, 97, 1, 2 >>
    /\ last.cbs = << << "f", <<97>>, <<>> >> >>
    /\ last.written = << 64, 2, 1, 2 >> /\ last.flushes = 1 /\ ~Raised

\* where the identifier of the PUBLISH just written starts in last.written
PublishIdAt ==
    1 + Len(RemainingLengthField(ClaimedRemaining(last.in)))
      + 2 + Len(Utf8Encode(last.in.topic)) + 1

\* the call just finished has written a packet identifier: publish at QoS > 0
\* got as far as the identifier, subscribe as far as its first write
WrotePublishId ==
    Did("publish") /\ last.in.qos > 0 /\ Len(last.written) > PublishIdAt
WroteSubscribeId == Did("subscribe") /\ Len(last.written) >= 4

\* the identifier the call just finished has written
WrittenId ==
    IF Did("publish")
    THEN last.written[PublishIdAt] * 256 + last.written[PublishIdAt + 1]
    ELSE last.written[3] * 256 + last.written[4]

\* C17: the packet identifiers written over a sequence of publish and
\* subscribe calls on one client are strictly increasing: the counter starts
\* at 0, no call decrements or resets it, and a call that writes an identifier
\* has incremented the counter by one and writes the new value, so that each
\* identifier written is larger than the counter was before the call and
\* hence larger than every identifier written earlier.
C17_PidsStrictlyIncrease ==
    /\ Did("__init__") => self.pid = 0
    /\ last.pre.pid <= self.pid /\ self.pid <= last.pre.pid + 1
    /\ (WrotePublishId \/ WroteSubscribeId) =>
          /\ self.pid = last.pre.pid + 1
          /\ WrittenId = self.pid
          /\ WrittenId >= 1

\* a second publish at QoS 1 has written identifier 2 and was acknowledged
C17_Witness ==
    /\ WrotePublishId /\ last.pre.pid = 1 /\ WrittenId = 2 /\ ~Raised
    /\ last.written = << 50, 6, 0, 1, 97, 0, 2, 122 >>

\* C18: the packet-identifier counter changes only in publish with qos > 0
\* and in subscribe: publish with qos = 0, ping, wait_msg, check_msg,
\* disconnect, set_callback, set_last_will and every call that fails input
\* validation leave it unchanged.
C18_PidChangesOnlyOnAllocation ==
    self.pid # last.pre.pid =>
        \/ /\ Did("publish") /\ last.in.qos > 0
           /\ last.in.msg.type = "bytes" /\ ClaimedRemaining(last.in) < 2097152
        \/ Did("subscribe") /\ last.pre.cb # None

\* wait_msg has answered a QoS 1 PUBLISH with a PUBACK carrying the peer's
\* identifier 1 while the client's own counter stayed at 2
C18_Witness ==
    /\ Did("wait_msg") /\ last.written = << 64, 2, 0, 1 >>
    /\ last.pre.pid = 2 /\ self.pid = 2

\* the SUBSCRIBE packet for Topic with identifier p at QoS 0
SubscribeSent(p) == << 130, 2 + 2 + BLen(Utf8Encode(Topic)) + 1 >> \o PackH(p)
                        \o PackH(BLen(Utf8Encode(Topic))) \o Utf8Encode(Topic) \o << 0 >>

\* the positions of rx that hold 0x90 with four further bytes behind them
SubackEnds == { i \in 1..Len(rx) : rx[i] = 144 /\ i + 4 <= Len(rx)
                                   /\ \A j \in 1..(i - 1) : rx[j] # 144 }

\* C20: after writing and flushing SUBSCRIBE, subscribe returns as soon as the
\* first opcode byte equal to 0x90 is read and exactly 4 further bytes have
\* been consumed, whatever packet identifier those bytes carry; every opcode
\* byte other than 0x90 read before that is discarded and the wait continues.
C20_SubscribeReturnsOnFirstSuback ==
    /\ (Did("subscribe") /\ ~Raised) =>
          /\ last.written = SubscribeSent(self.pid) /\ last.flushes = 1
          /\ last.nread >= 5 /\ Len(last.read) = last.nread
          /\ last.read[last.nread - 4] = 144
          /\ \A j \in 1..(last.nread - 5) : last.read[j] # 144
    /\ (self.cb # None /\ self.writer # 0) =>
          \A i \in SubackEnds :
              LET o == subscribe(self, rx, rxEof, Topic, 0, 0, TRUE)
              IN  o.exc = NoExc /\ o.nread = i + 4

\* subscribe sent identifier 1, discarded the four bytes of a PUBACK and
\* returned on a SUBACK that carries identifier 2
C20_Witness ==
    /\ Did("subscribe") /\ ~Raised
    /\ last.written = SubscribeSent(1)
    /\ last.read = Puback(1) \o Suback(2)

\* C19: in a session used by a single task, at every moment at most one
\* packet identifier has been sent in a QoS 1 PUBLISH and not yet been
\* acknowledged by a matching PUBACK, also after a publish at QoS 1 that ended
\* with an error while waiting for its PUBACK and was followed by another one.
C19_AtMostOneUnacked == Cardinality(last.unacked) <= 1

\* C21: for every topic of byte length T, the SUBSCRIBE frame written by
\* subscribe is 0x82, then a remaining-length field that decodes under the
\* continuation encoding to 2 + 2 + T + 1, then the 2-byte identifier, the
\* length-prefixed topic and one requested-QoS byte: the declared remaining
\* length equals the number of bytes that follow it, also for T >= 123.
C21_SubscribeFrame ==
    (Did("subscribe") /\ last.written # <<>>) =>
        LET w  == last.written
            tb == Utf8Encode(last.in.topic)
            rl == RecvLen(w, 2, 0, 1)
            body == SubSeq(w, rl.next, Len(w))
        IN  /\ w[1] = 130
            /\ rl.ok /\ rl.n = 2 + 2 + BLen(tb) + 1
            /\ BLen(body) = rl.n
            /\ body = PackH(self.pid) \o PackH(BLen(tb)) \o tb \o << last.in.qos >>

\* a length-prefixed field as MQTT defines it
Field(x) == PackH(BLen(x)) \o x

\* bit k of the byte f
Bit(f, k) == (f \div (2 ^ k)) % 2 = 1

\* C22: for every session configuration the remaining length declared in the
\* CONNECT fixed header equals the number of bytes written after it, the
\* fields appear in the order client id, will topic, will message, username,
\* password, and the connect-flags byte has bit 1 = clean_session, bits 7 and
\* 6 set iff a username is configured, bit 2 set iff a will is configured,
\* will QoS in bits 4-3 and will retain in bit 5.
C22_ConnectFrame ==
    (Did("connect") /\ last.flushes = 1) =>
        LET w    == last.written
            c    == last.pre
            rl   == RecvLen(w, 2, 0, 1)
            body == SubSeq(w, rl.next, Len(w))
            f    == body[8]
            will == c.lw_topic # NoBytes
            user == c.user # NoBytes
        IN  /\ w[1] = 16
            /\ rl.ok /\ BLen(body) = rl.n
            /\ body = << 0, 4, 77, 81, 84, 84, 4, f >> \o PackH(c.keepalive)
                      \o Field(c.client_id)
                      \o (IF will THEN Field(Val(c.lw_topic)) \o Field(Val(c.lw_msg))
                          ELSE <<>>)
                      \o (IF user THEN Field(Val(c.user)) \o Field(Val(c.pswd))
                          ELSE <<>>)
            /\ Bit(f, 1) = last.in.clean_session
            /\ Bit(f, 7) = user /\ Bit(f, 6) = user
            /\ Bit(f, 2) = will
            /\ will => /\ (f \div 8) % 4 = c.lw_qos
                       /\ Bit(f, 5) = c.lw_retain

\* a session with user name, password, keepalive 65535 and a retained QoS 2
\* will of 200 bytes has connected without clean_session: the remaining
\* length 225 takes two bytes
C22_Witness ==
    /\ Did("connect") /\ ~Raised /\ last.flushes = 1
    /\ ~last.in.clean_session
    /\ last.pre.user # NoBytes /\ last.pre.keepalive = 65535
    /\ last.pre.lw_qos = 2 /\ last.pre.lw_retain
    /\ last.pre.lw_msg = Some(Run(200))
    /\ SubSeq(last.written, 1, 3) = << 16, 225, 1 >>

\* the client as the call found it has no transport
NoTransport == last.pre.sock = 0 /\ last.pre.reader = 0 /\ last.pre.writer = 0

\* C23: on a client that has no transport (never connected, connect failed,
\* or after disconnect), each of publish, subscribe, ping and wait_msg fails
\* immediately with an error: none of them blocks, performs transport I/O, or
\* changes session state (including the packet-identifier counter) before
\* failing.
C23_NoTransportNoEffect ==
    (last.op \in {"publish", "subscribe", "ping", "wait_msg"} /\ NoTransport) =>
        /\ Raised
        /\ last.written = <<>> /\ last.flushes = 0 /\ last.nread = 0
        /\ self = last.pre

\* C24: wait_msg on an incoming PUBLISH whose QoS bits are 2 fails with the
\* unsupported-feature error without writing any acknowledgement and without
\* having delivered the message to the registered callback.
C24_Qos2NotDelivered ==
    (/\ Did("wait_msg") /\ last.nread >= 1 /\ last.exc # "EOFError"
     /\ IsPublish(last.read[1]) /\ And06(last.read[1]) = 4) =>
        /\ last.exc = "NotImplementedError"
        /\ last.written = <<>> /\ last.flushes = 0
        /\ last.cbs = <<>>

\* the call began to read at the first byte of a packet of the peer
StartedAtBoundary == last.nread >= 1 /\ last.readStart[1]

\* the next byte to read, if the peer has sent one, is the first of a packet
AtBoundary == rx = <<>> \/ rxStart[1]

\* C25: if the read cursor of the incoming stream is at a packet boundary when
\* wait_msg (or check_msg) is called and the peer sends only well-formed
\* packets, the cursor is again at a packet boundary when the call returns
\* normally, for every packet type it may receive (PINGRESP, PUBLISH of any
\* QoS, PUBACK, SUBACK).
C25_FramingKept ==
    (last.op \in {"wait_msg", "check_msg"} /\ ~Raised /\ StartedAtBoundary) =>
        AtBoundary

\* the peer has sent a PUBACK for identifier p that is still unread
PubackQueued(p) ==
    \E i \in 1..(Len(rx) - 3) : rxStart[i] /\ SubSeq(rx, i, i + 3) = Puback(p)

\* the stream stands at a packet boundary
CursorAtBoundary == rx # <<>> /\ rxStart[1]

\* C26: after publish(qos=1) has flushed its PUBLISH, if the peer eventually
\* sends a well-formed PUBACK with the matching identifier, possibly preceded
\* by any finite number of other well-formed packets such as incoming PUBLISH
\* messages or PINGRESP, then publish eventually returns successfully (it
\* neither blocks forever nor raises a protocol error).
C26_PubackEndsPublish ==
    (self.sock # 0 /\ self.pid = 0 /\ CursorAtBoundary /\ PubackQueued(1))
        ~> (Did("publish") /\ ~Raised /\ last.pre.pid = 0)

\* the sockets connect has created that are not closed
OpenSocks == { k \in 1..Len(socks) : socks[k] = "open" }

\* C27: over any sequence of connect and disconnect calls on one client
\* (including connect called again while already connected, and connect
\* attempts that fail), every socket opened by connect is closed by the time
\* the client no longer references it, so at most one socket opened by the
\* client is open at any time.
C27_NoSocketLeak ==
    /\ \A k \in OpenSocks : self.sock = k
    /\ Cardinality(OpenSocks) <= 1

\* C28: the task mqtt() never terminates; when connect or a publish has
\* raised, disconnect() has been called exactly once on that client and the
\* client is discarded before the pause; every failure is eventually
\* followed by a new connect attempt; a cycle publishes the config message
\* before the state message.
MqttFailureHandled ==
    /\ app.pc \in {"report", "pause"} => app.disc = 1
    /\ app.pc = "pause" => ~app.mqc
    /\ app.sent \in { <<>>, << "config" >>, << "config", "state" >> }

C28_ReconnectLoop ==
    /\ [](app.pc # "dead")
    /\ []MqttFailureHandled
    /\ (app.pc = "handler") ~> (app.pc = "connect")

\* C29: pulse_counter never decreases and is incremented exactly once per
\* light pulse: it equals the number of maximal runs of consecutive readings
\* >= 40 seen so far, also when a read error during a pulse has restarted the
\* inner loop while the light is still above the threshold.
C29_OneCountPerPulse == app.pulse_counter = app.runs

=============================================================================
